---- MODULE Spec2Model ----
(***************************************************************************)
(* DependencyManager (src/lib/dependency-manager.js): branch resolution,   *)
(* manifest synthesis and the install pipeline, as a state machine.        *)
(*                                                                         *)
(* A JavaScript string is a sequence of pieces; the character '#' is       *)
(* always a piece of its own, so that concatenation is \o and              *)
(* String.prototype.split('#') is computed, not assumed.  A JavaScript     *)
(* object is the sequence of its own properties [k, v] in insertion order. *)
(***************************************************************************)
EXTENDS Integers, Sequences, FiniteSets, TLC

VARIABLES
  env,                  \* process.env.CIRCLE_BRANCH
  git,                  \* what gitBranch.sync(workDir) would do now
  changes,              \* how often env / the checkout changed during the run
  defaultDependencies,  \* this.defaultDependencies
  startupDependencies,  \* the object as passed to the constructor (history)
  hostModule,           \* name in <workDir>/package.json
  cwd,                  \* process.cwd(), process-wide
  pc,                   \* where install() is suspended or about to continue
  next,                 \* index of the next key of the running loop
  checks,               \* one record per started checkForBranchOnDependency
  requests,             \* URLs handed to fetch, in order
  resolved,             \* one record per call of getBranchNameUnderTest (history)
  dependencyOverrides,  \* install's local dependencyOverrides
  branch,               \* install's local branch (line 112)
  ilpKitRepo,           \* install's local ilpKitRepo
  ilpKitBranch,         \* install's local ilpKitBranch
  dummyPackageJSON,     \* value returned by generateDummyPackageJSON
  manifest,             \* contents of <testDir>/package.json
  ops,                  \* subprocess and filesystem operations, in order
  kitCalls              \* arguments of each installIlpKit call

vars == <<env, git, changes, defaultDependencies, startupDependencies,
          hostModule, cwd, pc, next, checks, requests, resolved,
          dependencyOverrides, branch, ilpKitRepo, ilpKitBranch,
          dummyPackageJSON, manifest, ops, kitCalls>>

\* ------------------------------------------------------------- bounds
MaxDeps == 2
MaxChanges == 1

\* ------------------------------------------------- JavaScript values
UNDEFINED == <<"<undefined>">>
NULL == <<"<null>">>
GitThrows == <<"<throws>">>
Hash == "#"
Master == <<"master">>
HTTP_OK == 200

IsString(v) == v # UNDEFINED /\ v # NULL
\* ToBoolean: undefined, null and '' are falsy
Truthy(v) == IsString(v) /\ v # <<>>
\* ToString, as applied by + and by template literals
JSToString(v) ==
  IF v = NULL THEN <<"null">>
  ELSE IF v = UNDEFINED THEN <<"undefined">>
  ELSE v
Concat(a, b) == JSToString(a) \o JSToString(b)

\* index of the first '#' piece of s at or after i, Len(s) + 1 if none
RECURSIVE IndexOfHash(_, _)
IndexOfHash(s, i) ==
  IF i > Len(s) THEN Len(s) + 1
  ELSE IF s[i] = Hash THEN i
  ELSE IndexOfHash(s, i + 1)

\* s.split('#')[1]
SplitHash1(s) ==
  LET i == IndexOfHash(s, 1)
      j == IndexOfHash(s, i + 1)
  IN IF i > Len(s) THEN UNDEFINED ELSE SubSeq(s, i + 1, j - 1)

\* ------------------------------------------------ JavaScript objects
Keys(o) == [i \in 1..Len(o) |-> o[i].k]
KeySet(o) == {o[i].k : i \in 1..Len(o)}
Has(o, key) == key \in KeySet(o)
Get(o, key) ==
  IF Has(o, key)
  THEN o[CHOOSE i \in 1..Len(o) : o[i].k = key].v
  ELSE UNDEFINED
Set(o, key, val) ==
  IF Has(o, key)
  THEN [i \in 1..Len(o) |-> IF o[i].k = key THEN [k |-> key, v |-> val] ELSE o[i]]
  ELSE Append(o, [k |-> key, v |-> val])
Delete(o, key) == SelectSeq(o, LAMBDA p : p.k # key)

\* Object.assign(target, source)
RECURSIVE Assign(_, _)
Assign(target, source) ==
  IF source = <<>> THEN target
  ELSE Assign(Set(target, Head(source).k, Head(source).v), Tail(source))

\* ------------------------------------------------------ directories
WorkDir == <<"/work">>
TestDir == WorkDir \o <<"/integration-test">>
KitDir == TestDir \o <<"/ilp-kit">>

\* ------------------------------------------------- Branch Resolver
\* lines 42-47: the local `branch` before normalisation, and whether
\* gitBranch.sync was called
\* mutant: no try/catch around the lookup, its failure becomes the value
BranchLookup_noCatch(e, g) ==
  IF Truthy(e)
  THEN [value |-> e, consulted |-> FALSE]
  ELSE [value |-> g, consulted |-> TRUE]

BranchLookup(e, g) ==
  IF Truthy(e)
  THEN [value |-> e, consulted |-> FALSE]
  ELSE [value |-> IF g = GitThrows THEN e ELSE g, consulted |-> TRUE]

\* mutant: 'master' is normalised only when it comes from the checkout
getBranchNameUnderTest_envMaster(e, g) ==
  LET b == BranchLookup(e, g).value
  IN IF ~IsString(b) THEN NULL
     ELSE IF b = Master /\ BranchLookup(e, g).consulted THEN NULL
     ELSE b

getBranchNameUnderTest(e, g) ==
  LET b == BranchLookup(e, g).value
  IN IF ~IsString(b) THEN NULL
     ELSE IF b = Master THEN NULL
     ELSE b

\* the history record of one call
Resolution(e, g) ==
  [env |-> e, git |-> g, consulted |-> BranchLookup(e, g).consulted,
   result |-> getBranchNameUnderTest(e, g)]

\* mutant: the request is issued whatever the branch
ShortCircuit_never(b) == FALSE

\* line 60: the check returns false without a request
ShortCircuit(b) == ~Truthy(b)

\* lines 61-62
CheckUrl(D, dependency, b) ==
  <<"https://github.com/">> \o JSToString(Get(D, dependency))
    \o <<"/tree/">> \o JSToString(b)

NetworkError == [kind |-> "error", status |-> 0]
Response(status) == [kind |-> "response", status |-> status]

\* mutant: a rejected fetch is caught and answered false
FetchSettle_swallow(outcome) ==
  IF outcome.kind = "error" THEN "false"
  ELSE IF outcome.status = HTTP_OK THEN "true"
  ELSE "false"

\* mutant: every 2xx status counts as existing (response.ok)
FetchSettle_any2xx(outcome) ==
  IF outcome.kind = "error" THEN "rejected"
  ELSE IF outcome.status >= 200 /\ outcome.status < 300 THEN "true"
  ELSE "false"

\* line 63: how the promise returned by fetch(url).then(...) settles
FetchSettle(outcome) ==
  IF outcome.kind = "error" THEN "rejected"
  ELSE IF outcome.status = HTTP_OK THEN "true"
  ELSE "false"

\* --------------------------------------------- Manifest Synthesizer
BaseDependencies == <<[k |-> "sqlite3", v |-> <<"~3.1.0">>]>>
SelfReference == <<"file:../">>

\* JSON.stringify keeps every own property but those whose value is undefined
JSONStringify(d) ==
  [d EXCEPT !.dependencies = SelectSeq(@, LAMBDA p : p.v # UNDEFINED)]

\* mutant: the overrides are merged before the Dependency Set
generateDummyPackageJSON_overridesFirst(D, overrides, host) ==
  LET merged == Assign(Assign(BaseDependencies, overrides), D)
      deps == IF Truthy(Get(merged, host))
              THEN Set(merged, host, SelfReference)
              ELSE merged
  IN JSONStringify([name |-> <<"five-bells-integration-test-instance">>,
                    private |-> TRUE,
                    dependencies |-> deps])

generateDummyPackageJSON(D, overrides, host) ==
  LET merged == Assign(Assign(BaseDependencies, D), overrides)
      deps == IF Truthy(Get(merged, host))
              THEN Set(merged, host, SelfReference)
              ELSE merged
  IN JSONStringify([name |-> <<"five-bells-integration-test-instance">>,
                    private |-> TRUE,
                    dependencies |-> deps])

NoFile == [name |-> <<>>, private |-> FALSE, dependencies |-> <<>>]

\* ---------------------------------------------- Install Orchestrator
\* lines 113-116, over the dependencies the filter kept
RECURSIVE BuildOverrides(_, _, _)
BuildOverrides(D, toOverride, b) ==
  IF toOverride = <<>> THEN <<>>
  ELSE Set(BuildOverrides(D, SubSeq(toOverride, 1, Len(toOverride) - 1), b),
           toOverride[Len(toOverride)],
           Concat(Concat(Get(D, toOverride[Len(toOverride)]), <<Hash>>), b))

\* lines 120-121
IlpKitBranchOf(overrides) ==
  IF Truthy(Get(overrides, "ilp-kit"))
  THEN SplitHash1(Get(overrides, "ilp-kit"))
  ELSE Master

\* mutant: every entry is removed
RemoveIlpKit_all(o) == IF Truthy(Get(o, "ilp-kit")) THEN <<>> ELSE o

\* mutant: the entry is left in place
RemoveIlpKit_never(o) == o

\* lines 123 and 124: `o['ilp-kit'] && delete o['ilp-kit']`
RemoveIlpKit(o) ==
  IF Truthy(Get(o, "ilp-kit")) THEN Delete(o, "ilp-kit") ELSE o

\* mutant: a failed step is ignored
AfterStep_ignore(ok, nextpc) == nextpc

\* a yielded promise that rejects, or a synchronous call that throws,
\* ends the generator
AfterStep(ok, nextpc) == IF ok THEN nextpc ELSE "failed"

Op(name, dir, args, st) == [op |-> name, dir |-> dir, args |-> args, st |-> st]
\* mutant: the spawned process is not awaited
Settled_notAwaited(log, ok) == log

Settled(log, ok) ==
  [log EXCEPT ![Len(log)].st = IF ok THEN "ok" ELSE "failed"]

\* ----------------------------------------------------------- inputs
DepNames == {"modA", "modB", "ilp-kit"}
RepoOf(key) ==
  CASE key = "modA" -> <<"org/modA">>
    [] key = "modB" -> <<"org/modB">>
    [] key = "ilp-kit" -> <<"org/ilp-kit">>
    [] OTHER -> <<"org/sqlite3">>
\* a repository identifier, or (for the two names the code treats
\* specially) the empty string
RepoVals(key) == IF key = "modB" THEN {RepoOf(key)} ELSE {RepoOf(key), <<>>}

\* insertion order of the keys of the objects drawn below
Rank(key) ==
  CASE key = "sqlite3" -> 0
    [] key = "modA" -> 1
    [] key = "modB" -> 2
    [] OTHER -> 3

\* the objects of at most n properties with keys from names
RECURSIVE ObjectsOver(_, _)
ObjectsOver(names, n) ==
  IF n = 0 THEN {<<>>}
  ELSE LET smaller == ObjectsOver(names, n - 1)
       IN smaller \cup
          UNION {{Append(x[1], [k |-> x[2], v |-> val]) : val \in RepoVals(x[2])}
                 : x \in {y \in smaller \X names :
                            \A j \in 1..Len(y[1]) : Rank(y[1][j].k) < Rank(y[2])}}

DependencySets == ObjectsOver(DepNames, MaxDeps)
HostNames == {"modA", "modC"}
Fx == <<"fx">>
FixHash1 == <<"fix", Hash, "1">>
EnvVals == {UNDEFINED, Master, Fx}
GitVals == {GitThrows, Master, Fx, FixHash1}
Statuses == {200, 404}
Outcomes == {Response(st) : st \in Statuses} \cup {NetworkError}

\* ------------------------------------------------------------- Init
\* new DependencyManager({ defaultDependencies }), lines 12-16
Init ==
  /\ env \in EnvVals
  /\ git \in GitVals
  /\ changes = 0
  /\ defaultDependencies \in DependencySets
  /\ startupDependencies = defaultDependencies
  /\ hostModule \in HostNames
  /\ cwd = WorkDir
  /\ pc = "start"
  /\ next = 1
  /\ checks = <<>>
  /\ requests = <<>>
  /\ resolved = <<>>
  /\ dependencyOverrides = <<>>
  /\ branch = UNDEFINED
  /\ ilpKitRepo = UNDEFINED
  /\ ilpKitBranch = UNDEFINED
  /\ dummyPackageJSON = NoFile
  /\ manifest = NoFile
  /\ ops = <<>>
  /\ kitCalls = <<>>

\* ---------------------------------------------------------- install
\* line 102: spawn('rm', ['-rf', testDir]) is started
Start ==
  /\ pc = "start"
  /\ ops' = Append(ops, Op("rm", cwd, <<<<"-rf">>, TestDir>>, "running"))
  /\ pc' = "rm"
  /\ UNCHANGED <<env, git, changes, defaultDependencies, startupDependencies,
                 hostModule, cwd, next, checks, requests, resolved,
                 dependencyOverrides, branch, ilpKitRepo, ilpKitBranch,
                 dummyPackageJSON, manifest, kitCalls>>

\* line 102: rm exits
RmDone ==
  /\ pc = "rm"
  /\ \E ok \in BOOLEAN :
       /\ ops' = Settled(ops, ok)
       /\ pc' = AfterStep(ok, "mkdir")
  /\ UNCHANGED <<env, git, changes, defaultDependencies, startupDependencies,
                 hostModule, cwd, next, checks, requests, resolved,
                 dependencyOverrides, branch, ilpKitRepo, ilpKitBranch,
                 dummyPackageJSON, manifest, kitCalls>>

\* lines 103-104, then Promise.filter is entered (line 107)
Mkdir ==
  /\ pc = "mkdir"
  /\ \E ok \in BOOLEAN :
       LET made == Append(ops, Op("mkdirSync", cwd, <<TestDir>>,
                                  IF ok THEN "ok" ELSE "failed"))
           p == AfterStep(ok, "checks")
       IN /\ pc' = p
          /\ IF p # "failed"
             THEN /\ cwd' = TestDir
                  /\ ops' = Append(made, Op("chdir", TestDir, <<TestDir>>, "ok"))
             ELSE /\ cwd' = cwd
                  /\ ops' = made
  /\ next' = 1
  /\ UNCHANGED <<env, git, changes, defaultDependencies, startupDependencies,
                 hostModule, checks, requests, resolved,
                 dependencyOverrides, branch, ilpKitRepo, ilpKitBranch,
                 dummyPackageJSON, manifest, kitCalls>>

\* lines 58-63: Promise.filter calls checkForBranchOnDependency on the next
\* key; all keys are visited before any response is handled
StartCheck ==
  /\ pc = "checks"
  /\ next <= Len(defaultDependencies)
  /\ LET dependency == Keys(defaultDependencies)[next]
         b == getBranchNameUnderTest(env, git)
     IN /\ resolved' = Append(resolved, Resolution(env, git))
        /\ IF ShortCircuit(b)
           THEN /\ checks' = Append(checks,
                      [dep |-> dependency, branch |-> b, st |-> "false",
                       requested |-> FALSE, outcome |-> Response(0)])
                /\ requests' = requests
           ELSE /\ checks' = Append(checks,
                      [dep |-> dependency, branch |-> b, st |-> "pending",
                       requested |-> TRUE, outcome |-> Response(0)])
                /\ requests' = Append(requests,
                      CheckUrl(defaultDependencies, dependency, b))
  /\ next' = next + 1
  /\ UNCHANGED <<env, git, changes, defaultDependencies, startupDependencies,
                 hostModule, cwd, pc, dependencyOverrides, branch, ilpKitRepo,
                 ilpKitBranch, dummyPackageJSON, manifest, ops, kitCalls>>

\* line 63: one fetch settles; a rejection rejects the filter and is thrown
\* into install at line 107
FetchSettled ==
  /\ pc = "checks"
  /\ next > Len(defaultDependencies)
  /\ \E i \in 1..Len(checks) : \E outcome \in Outcomes :
       /\ checks[i].st = "pending"
       /\ checks' = [checks EXCEPT ![i].st = FetchSettle(outcome),
                                   ![i].outcome = outcome]
       /\ pc' = AfterStep(FetchSettle(outcome) # "rejected", "checks")
  /\ UNCHANGED <<env, git, changes, defaultDependencies, startupDependencies,
                 hostModule, cwd, next, requests, resolved,
                 dependencyOverrides, branch, ilpKitRepo, ilpKitBranch,
                 dummyPackageJSON, manifest, ops, kitCalls>>

\* the keys Promise.filter kept
Kept(cs) ==
  LET kept == SelectSeq(cs, LAMBDA c : c.st = "true")
  IN [i \in 1..Len(kept) |-> kept[i].dep]

\* lines 107-116, once every check has settled
ComputeOverrides ==
  /\ pc = "checks"
  /\ next > Len(defaultDependencies)
  /\ \A i \in 1..Len(checks) : checks[i].st \in {"true", "false"}
  /\ resolved' = Append(resolved, Resolution(env, git))
  /\ branch' = getBranchNameUnderTest(env, git)
  /\ dependencyOverrides' =
       BuildOverrides(defaultDependencies, Kept(checks), branch')
  /\ pc' = "extract"
  /\ UNCHANGED <<env, git, changes, defaultDependencies, startupDependencies,
                 hostModule, cwd, next, checks, requests, ilpKitRepo,
                 ilpKitBranch, dummyPackageJSON, manifest, ops, kitCalls>>

\* lines 119-124
ExtractIlpKit ==
  /\ pc = "extract"
  /\ ilpKitRepo' = Get(defaultDependencies, "ilp-kit")
  /\ ilpKitBranch' = IlpKitBranchOf(dependencyOverrides)
  /\ defaultDependencies' = RemoveIlpKit(defaultDependencies)
  /\ dependencyOverrides' = RemoveIlpKit(dependencyOverrides)
  /\ pc' = "generate"
  /\ UNCHANGED <<env, git, changes, startupDependencies, hostModule, cwd,
                 next, checks, requests, resolved, branch, dummyPackageJSON,
                 manifest, ops, kitCalls>>

\* lines 127-128
Generate ==
  /\ pc = "generate"
  /\ dummyPackageJSON' =
       generateDummyPackageJSON(defaultDependencies, dependencyOverrides,
                                hostModule)
  /\ pc' = "write"
  /\ UNCHANGED <<env, git, changes, defaultDependencies, startupDependencies,
                 hostModule, cwd, next, checks, requests, resolved,
                 dependencyOverrides, branch, ilpKitRepo, ilpKitBranch,
                 manifest, ops, kitCalls>>

\* line 129, then line 133: spawn('npm', ['install']) is started
WriteManifest ==
  /\ pc = "write"
  /\ \E ok \in BOOLEAN :
       LET written == Append(ops, Op("writeFileSync", cwd,
                                     <<TestDir \o <<"/package.json">>>>,
                                     IF ok THEN "ok" ELSE "failed"))
           p == AfterStep(ok, "npmInstall")
       IN /\ pc' = p
          /\ IF p # "failed"
             THEN /\ manifest' = IF ok THEN dummyPackageJSON ELSE manifest
                  /\ ops' = Append(written,
                                   Op("npm", cwd, <<<<"install">>>>, "running"))
             ELSE /\ manifest' = manifest
                  /\ ops' = written
  /\ UNCHANGED <<env, git, changes, defaultDependencies, startupDependencies,
                 hostModule, cwd, next, checks, requests, resolved,
                 dependencyOverrides, branch, ilpKitRepo, ilpKitBranch,
                 dummyPackageJSON, kitCalls>>

\* line 133: npm install exits
NpmInstallDone ==
  /\ pc = "npmInstall"
  /\ \E ok \in BOOLEAN :
       /\ ops' = Settled(ops, ok)
       /\ pc' = AfterStep(ok, "cleanup")
  /\ next' = 1
  /\ UNCHANGED <<env, git, changes, defaultDependencies, startupDependencies,
                 hostModule, cwd, checks, requests, resolved,
                 dependencyOverrides, branch, ilpKitRepo, ilpKitBranch,
                 dummyPackageJSON, manifest, kitCalls>>

\* lines 137-139: one iteration of the for-in loop
Cleanup ==
  /\ pc = "cleanup"
  /\ next <= Len(defaultDependencies)
  /\ \E ok \in BOOLEAN :
       /\ ops' = Append(ops,
            Op("rimraf", cwd,
               <<<<"node_modules/**/node_modules/",
                   Keys(defaultDependencies)[next]>>>>,
               IF ok THEN "ok" ELSE "failed"))
       /\ pc' = AfterStep(ok, "cleanup")
  /\ next' = next + 1
  /\ UNCHANGED <<env, git, changes, defaultDependencies, startupDependencies,
                 hostModule, cwd, checks, requests, resolved,
                 dependencyOverrides, branch, ilpKitRepo, ilpKitBranch,
                 dummyPackageJSON, manifest, kitCalls>>

\* lines 142-143, and installIlpKit up to its first yield (lines 161-164)
CheckIlpKit ==
  /\ pc = "cleanup"
  /\ next > Len(defaultDependencies)
  /\ IF Truthy(ilpKitRepo)
     THEN /\ kitCalls' = Append(kitCalls,
                                [repo |-> ilpKitRepo, branch |-> ilpKitBranch])
          /\ ops' = Append(ops,
               Op("git", cwd,
                  <<<<"clone">>, Concat(<<"https://github.com/">>, ilpKitRepo),
                    <<"-b">>, ilpKitBranch, KitDir>>,
                  "running"))
          /\ pc' = "clone"
     ELSE /\ kitCalls' = kitCalls
          /\ ops' = ops
          /\ pc' = "done"
  /\ UNCHANGED <<env, git, changes, defaultDependencies, startupDependencies,
                 hostModule, cwd, next, checks, requests, resolved,
                 dependencyOverrides, branch, ilpKitRepo, ilpKitBranch,
                 dummyPackageJSON, manifest>>

\* line 164: git clone exits; lines 166-167
CloneDone ==
  /\ pc = "clone"
  /\ \E ok \in BOOLEAN :
       LET p == AfterStep(ok, "kitInstall")
       IN /\ pc' = p
          /\ IF p # "failed"
             THEN /\ cwd' = KitDir
                  /\ ops' = Settled(ops, ok)
                              \o <<Op("chdir", KitDir, <<KitDir>>, "ok"),
                                   Op("npm", KitDir, <<<<"install">>>>, "running")>>
             ELSE /\ cwd' = cwd
                  /\ ops' = Settled(ops, ok)
  /\ UNCHANGED <<env, git, changes, defaultDependencies, startupDependencies,
                 hostModule, next, checks, requests, resolved,
                 dependencyOverrides, branch, ilpKitRepo, ilpKitBranch,
                 dummyPackageJSON, manifest, kitCalls>>

\* line 167: npm install exits; line 168
KitInstallDone ==
  /\ pc = "kitInstall"
  /\ \E ok \in BOOLEAN :
       LET p == AfterStep(ok, "kitLink")
       IN /\ pc' = p
          /\ IF p # "failed"
             THEN ops' = Append(Settled(ops, ok),
                                Op("npm", cwd, <<<<"link">>>>, "running"))
             ELSE ops' = Settled(ops, ok)
  /\ UNCHANGED <<env, git, changes, defaultDependencies, startupDependencies,
                 hostModule, cwd, next, checks, requests, resolved,
                 dependencyOverrides, branch, ilpKitRepo, ilpKitBranch,
                 dummyPackageJSON, manifest, kitCalls>>

\* line 168: npm link exits; lines 169-170
KitLinkDone ==
  /\ pc = "kitLink"
  /\ \E ok \in BOOLEAN :
       LET p == AfterStep(ok, "linkBack")
       IN /\ pc' = p
          /\ IF p # "failed"
             THEN /\ cwd' = TestDir
                  /\ ops' = Settled(ops, ok)
                              \o <<Op("chdir", TestDir, <<TestDir>>, "ok"),
                                   Op("npm", TestDir,
                                      <<<<"link">>, <<"ilp-kit">>>>, "running")>>
             ELSE /\ cwd' = cwd
                  /\ ops' = Settled(ops, ok)
  /\ UNCHANGED <<env, git, changes, defaultDependencies, startupDependencies,
                 hostModule, next, checks, requests, resolved,
                 dependencyOverrides, branch, ilpKitRepo, ilpKitBranch,
                 dummyPackageJSON, manifest, kitCalls>>

\* line 170: npm link ilp-kit exits; installIlpKit and install return
LinkBackDone ==
  /\ pc = "linkBack"
  /\ \E ok \in BOOLEAN :
       /\ ops' = Settled(ops, ok)
       /\ pc' = AfterStep(ok, "done")
  /\ UNCHANGED <<env, git, changes, defaultDependencies, startupDependencies,
                 hostModule, cwd, next, checks, requests, resolved,
                 dependencyOverrides, branch, ilpKitRepo, ilpKitBranch,
                 dummyPackageJSON, manifest, kitCalls>>

\* ------------------------------------------------------ environment
\* install has started and has not yet read the branch for the last time
\* (line 112); a later change is read by nothing
Running == pc \in {"rm", "mkdir", "checks"}
\* install is suspended at a yield, so other code of the process may run
Suspended ==
  \/ pc = "rm"
  \/ pc = "checks" /\ next > Len(defaultDependencies)

\* another process changes the checkout of workDir (read at line 45)
GitCheckout ==
  /\ Running
  /\ changes < MaxChanges
  /\ \E g \in GitVals \ {git} : git' = g
  /\ changes' = changes + 1
  /\ UNCHANGED <<env, defaultDependencies, startupDependencies, hostModule,
                 cwd, pc, next, checks, requests, resolved,
                 dependencyOverrides, branch, ilpKitRepo, ilpKitBranch,
                 dummyPackageJSON, manifest, ops, kitCalls>>

\* other code of the process assigns process.env.CIRCLE_BRANCH (read at line 42)
SetEnv ==
  /\ Suspended
  /\ changes < MaxChanges
  /\ \E e \in EnvVals \ {env} : env' = e
  /\ changes' = changes + 1
  /\ UNCHANGED <<git, defaultDependencies, startupDependencies, hostModule,
                 cwd, pc, next, checks, requests, resolved,
                 dependencyOverrides, branch, ilpKitRepo, ilpKitBranch,
                 dummyPackageJSON, manifest, ops, kitCalls>>

Next ==
  \/ Start
  \/ RmDone
  \/ Mkdir
  \/ StartCheck
  \/ FetchSettled
  \/ ComputeOverrides
  \/ ExtractIlpKit
  \/ Generate
  \/ WriteManifest
  \/ NpmInstallDone
  \/ Cleanup
  \/ CheckIlpKit
  \/ CloneDone
  \/ KitInstallDone
  \/ KitLinkDone
  \/ LinkBackDone
  \/ GitCheckout
  \/ SetEnv

Spec == Init /\ [][Next]_vars

\* --------------------------------------- the ambient working directory
\* install is suspended at one of its yields (lines 102, 107, 133, 164,
\* 167, 168, 170)
AtYield ==
  \/ pc \in {"rm", "npmInstall", "clone", "kitInstall", "kitLink", "linkBack"}
  \/ pc = "checks" /\ next > Len(defaultDependencies)

Elsewhere == <<"/elsewhere">>

\* while install is suspended, other code of the process calls
\* process.chdir: the working directory is process-wide (lines 104, 166, 169)
ChdirElsewhere ==
  /\ AtYield
  /\ changes < MaxChanges
  /\ cwd # Elsewhere
  /\ cwd' = Elsewhere
  /\ changes' = changes + 1
  /\ UNCHANGED <<env, git, defaultDependencies, startupDependencies,
                 hostModule, pc, next, checks, requests, resolved,
                 dependencyOverrides, branch, ilpKitRepo, ilpKitBranch,
                 dummyPackageJSON, manifest, ops, kitCalls>>

NextAmbient == Next \/ ChdirElsewhere

SpecAmbient == Init /\ [][NextAmbient]_vars

\* ------------------------------------------- the manager's methods
\* Each method is also callable on its own; the two specifications below
\* call one method on a manager built from a wider set of inputs.
MaxCalls == 2

Idle ==
  /\ changes = 0
  /\ cwd = WorkDir
  /\ next = 1
  /\ checks = <<>>
  /\ requests = <<>>
  /\ branch = UNDEFINED
  /\ ilpKitRepo = UNDEFINED
  /\ ilpKitBranch = UNDEFINED
  /\ manifest = NoFile
  /\ ops = <<>>
  /\ kitCalls = <<>>

GenNames == {"sqlite3", "modA", "ilp-kit"}
GenDependencySets == ObjectsOver(GenNames, MaxDeps)
\* override sets: each value is '<repo>#fx'
GenOverrideSets ==
  {[i \in 1..Len(o) |-> [k |-> o[i].k, v |-> Concat(Concat(o[i].v, <<Hash>>), Fx)]]
     : o \in GenDependencySets}
GenHosts == {"modA", "ilp-kit", "modC"}

InitGen ==
  /\ Idle
  /\ env = UNDEFINED
  /\ git = GitThrows
  /\ defaultDependencies \in GenDependencySets
  /\ startupDependencies = defaultDependencies
  /\ hostModule \in GenHosts
  /\ pc = "gen"
  /\ resolved = <<>>
  /\ dependencyOverrides = <<>>
  /\ dummyPackageJSON = NoFile

\* a call of generateDummyPackageJSON(dependencyOverrides), lines 75-92
CallGenerate ==
  /\ pc \in {"gen", "generated"}
  /\ \E overrides \in GenOverrideSets :
       /\ dependencyOverrides' = overrides
       /\ dummyPackageJSON' =
            generateDummyPackageJSON(defaultDependencies, overrides, hostModule)
  /\ pc' = "generated"
  /\ UNCHANGED <<env, git, changes, defaultDependencies, startupDependencies,
                 hostModule, cwd, next, checks, requests, resolved, branch,
                 ilpKitRepo, ilpKitBranch, manifest, ops, kitCalls>>

SpecGen == InitGen /\ [][CallGenerate]_vars

BranchEnvVals == {UNDEFINED, <<>>, Master, Fx}
BranchGitVals == {GitThrows, NULL, Master, Fx, FixHash1}

InitBranch ==
  /\ Idle
  /\ env \in BranchEnvVals
  /\ git \in BranchGitVals
  /\ defaultDependencies = <<>>
  /\ startupDependencies = <<>>
  /\ hostModule = "modC"
  /\ pc = "branch"
  /\ resolved = <<>>
  /\ dependencyOverrides = <<>>
  /\ dummyPackageJSON = NoFile

\* a call of getBranchNameUnderTest(), lines 41-51
CallGetBranch ==
  /\ pc = "branch"
  /\ Len(resolved) < MaxCalls
  /\ resolved' = Append(resolved, Resolution(env, git))
  /\ UNCHANGED <<env, git, changes, defaultDependencies, startupDependencies,
                 hostModule, cwd, pc, next, checks, requests,
                 dependencyOverrides, branch, ilpKitRepo, ilpKitBranch,
                 dummyPackageJSON, manifest, ops, kitCalls>>

\* between two calls the variable or the checkout is changed
ChangeBranchSource ==
  /\ pc = "branch"
  /\ Len(resolved) < MaxCalls
  /\ \E e \in BranchEnvVals, g \in BranchGitVals :
       /\ <<e, g>> # <<env, git>>
       /\ env' = e
       /\ git' = g
  /\ UNCHANGED <<changes, defaultDependencies, startupDependencies,
                 hostModule, cwd, pc, next, checks, requests, resolved,
                 dependencyOverrides, branch, ilpKitRepo, ilpKitBranch,
                 dummyPackageJSON, manifest, ops, kitCalls>>

NextBranch == CallGetBranch \/ ChangeBranchSource

SpecBranch == InitBranch /\ [][NextBranch]_vars

WideStatuses == {200, 204, 301, 404}
WideOutcomes == {Response(st) : st \in WideStatuses} \cup {NetworkError}

InitCheck ==
  /\ Idle
  /\ env \in BranchEnvVals
  /\ git \in BranchGitVals
  /\ defaultDependencies \in DependencySets \ {<<>>}
  /\ startupDependencies = defaultDependencies
  /\ hostModule = "modC"
  /\ pc = "check"
  /\ resolved = <<>>
  /\ dependencyOverrides = <<>>
  /\ dummyPackageJSON = NoFile

\* a call of checkForBranchOnDependency(dependency), lines 58-63
CallCheck ==
  /\ pc = "check"
  /\ Len(checks) < MaxCalls
  /\ \E dependency \in KeySet(defaultDependencies) :
       LET b == getBranchNameUnderTest(env, git)
       IN /\ resolved' = Append(resolved, Resolution(env, git))
          /\ IF ShortCircuit(b)
             THEN /\ checks' = Append(checks,
                        [dep |-> dependency, branch |-> b, st |-> "false",
                         requested |-> FALSE, outcome |-> Response(0)])
                  /\ requests' = requests
             ELSE /\ checks' = Append(checks,
                        [dep |-> dependency, branch |-> b, st |-> "pending",
                         requested |-> TRUE, outcome |-> Response(0)])
                  /\ requests' = Append(requests,
                        CheckUrl(defaultDependencies, dependency, b))
  /\ UNCHANGED <<env, git, changes, defaultDependencies, startupDependencies,
                 hostModule, cwd, pc, next, dependencyOverrides, branch,
                 ilpKitRepo, ilpKitBranch, dummyPackageJSON, manifest, ops,
                 kitCalls>>

\* line 63: the fetch of one call settles
CheckSettled ==
  /\ pc = "check"
  /\ \E i \in 1..Len(checks) : \E outcome \in WideOutcomes :
       /\ checks[i].st = "pending"
       /\ checks' = [checks EXCEPT ![i].st = FetchSettle(outcome),
                                   ![i].outcome = outcome]
  /\ UNCHANGED <<env, git, changes, defaultDependencies, startupDependencies,
                 hostModule, cwd, pc, next, requests, resolved,
                 dependencyOverrides, branch, ilpKitRepo, ilpKitBranch,
                 dummyPackageJSON, manifest, ops, kitCalls>>

NextCheck == CallCheck \/ CheckSettled

SpecCheck == InitCheck /\ [][NextCheck]_vars

\* ------------------------------------------- bin/integration-loader
LoaderModules == {"modA", "five-bells-integration-test"}
LoaderRepos == {<<"org/module">>, <<>>}
LoaderHosts == {"modA", "five-bells-integration-test", "modC"}
ServiceManager ==
  [k |-> "five-bells-service-manager",
   v |-> <<"michielbdejong/five-bells-service-manager">>]

\* integration-loader lines 12-15
LoaderDeps(module, repo) ==
  IF module = "five-bells-integration-test"
  THEN <<[k |-> module, v |-> repo], ServiceManager>>
  ELSE <<[k |-> module, v |-> repo]>>

\* integration-loader lines 7-16
InitLoader ==
  /\ Idle
  /\ env \in EnvVals
  /\ git \in GitVals
  /\ \E module \in LoaderModules, repo \in LoaderRepos :
       defaultDependencies = LoaderDeps(module, repo)
  /\ startupDependencies = defaultDependencies
  /\ hostModule \in LoaderHosts
  /\ pc = "loop"
  /\ resolved = <<>>
  /\ dependencyOverrides = <<>>
  /\ dummyPackageJSON = NoFile

\* integration-loader lines 19-21: the next key; the host module is
\* skipped, for any other key the check is called and yielded
LoaderIter ==
  /\ pc = "loop"
  /\ next <= Len(defaultDependencies)
  /\ LET module == Keys(defaultDependencies)[next]
         b == getBranchNameUnderTest(env, git)
     IN IF module = hostModule
        THEN /\ next' = next + 1
             /\ UNCHANGED <<pc, checks, requests, resolved>>
        ELSE /\ next' = next
             /\ resolved' = Append(resolved, Resolution(env, git))
             /\ IF ShortCircuit(b)
                THEN /\ checks' = Append(checks,
                           [dep |-> module, branch |-> b, st |-> "false",
                            requested |-> FALSE, outcome |-> Response(0)])
                     /\ requests' = requests
                     /\ pc' = "checked"
                ELSE /\ checks' = Append(checks,
                           [dep |-> module, branch |-> b, st |-> "pending",
                            requested |-> TRUE, outcome |-> Response(0)])
                     /\ requests' = Append(requests,
                           CheckUrl(defaultDependencies, module, b))
                     /\ pc' = "check"
  /\ UNCHANGED <<env, git, changes, defaultDependencies, startupDependencies,
                 hostModule, cwd, dependencyOverrides, branch, ilpKitRepo,
                 ilpKitBranch, dummyPackageJSON, manifest, ops, kitCalls>>

\* integration-loader line 21: the yielded check settles
LoaderFetchSettled ==
  /\ pc = "check"
  /\ \E outcome \in Outcomes :
       /\ checks' = [checks EXCEPT ![Len(checks)].st = FetchSettle(outcome),
                                   ![Len(checks)].outcome = outcome]
       /\ pc' = AfterStep(FetchSettle(outcome) # "rejected", "checked")
  /\ UNCHANGED <<env, git, changes, defaultDependencies, startupDependencies,
                 hostModule, cwd, next, requests, resolved,
                 dependencyOverrides, branch, ilpKitRepo, ilpKitBranch,
                 dummyPackageJSON, manifest, ops, kitCalls>>

\* integration-loader lines 22-24: npm install <repo>#<branch> is started
LoaderInstall ==
  /\ pc = "checked"
  /\ LET module == Keys(defaultDependencies)[next]
         isBranch == checks[Len(checks)].st = "true"
         b == IF isBranch THEN getBranchNameUnderTest(env, git) ELSE Master
         repo == Get(defaultDependencies, module)
     IN /\ resolved' = IF isBranch
                       THEN Append(resolved, Resolution(env, git))
                       ELSE resolved
        /\ branch' = b
        /\ ops' = Append(ops,
             Op("npm", cwd,
                <<<<"install">>, Concat(Concat(repo, <<Hash>>), b)>>,
                "running"))
  /\ pc' = "install"
  /\ UNCHANGED <<env, git, changes, defaultDependencies, startupDependencies,
                 hostModule, cwd, next, checks, requests,
                 dependencyOverrides, ilpKitRepo, ilpKitBranch,
                 dummyPackageJSON, manifest, kitCalls>>

\* integration-loader line 24: npm install exits
LoaderInstallDone ==
  /\ pc = "install"
  /\ \E ok \in BOOLEAN :
       /\ ops' = Settled(ops, ok)
       /\ pc' = AfterStep(ok, "loop")
  /\ next' = next + 1
  /\ UNCHANGED <<env, git, changes, defaultDependencies, startupDependencies,
                 hostModule, cwd, checks, requests, resolved,
                 dependencyOverrides, branch, ilpKitRepo, ilpKitBranch,
                 dummyPackageJSON, manifest, kitCalls>>

\* integration-loader lines 26-27: the loop is over, the coroutine returns
LoaderEnd ==
  /\ pc = "loop"
  /\ next > Len(defaultDependencies)
  /\ pc' = "done"
  /\ UNCHANGED <<env, git, changes, defaultDependencies, startupDependencies,
                 hostModule, cwd, next, checks, requests, resolved,
                 dependencyOverrides, branch, ilpKitRepo, ilpKitBranch,
                 dummyPackageJSON, manifest, ops, kitCalls>>

\* while the coroutine is suspended at a yield the variable or the
\* checkout changes (read again at line 22 and by the next check)
LoaderBranchChange ==
  /\ pc \in {"check", "install"}
  /\ changes < MaxChanges
  /\ \E e \in EnvVals, g \in GitVals :
       /\ <<e, g>> # <<env, git>>
       /\ e = env \/ g = git
       /\ env' = e
       /\ git' = g
  /\ changes' = changes + 1
  /\ UNCHANGED <<defaultDependencies, startupDependencies, hostModule, cwd,
                 pc, next, checks, requests, resolved, dependencyOverrides,
                 branch, ilpKitRepo, ilpKitBranch, dummyPackageJSON,
                 manifest, ops, kitCalls>>

NextLoader ==
  \/ LoaderIter
  \/ LoaderFetchSettled
  \/ LoaderInstall
  \/ LoaderInstallDone
  \/ LoaderEnd
  \/ LoaderBranchChange

SpecLoader == InitLoader /\ [][NextLoader]_vars

\* =========================================================== claims

\* ------------------------------------------------------------- C1
OpIndexes == 1..Len(ops)
CheckIndexes == 1..Len(checks)
PreparationOps == {"rm", "mkdirSync", "chdir"}

\* C1: a failed step of install or installIlpKit (a subprocess that exits
\* in error, a synchronous call that throws, a rejected branch check) is
\* the last step the run executes: nothing is started after it, it is not
\* run again, and the run is failed, never completed.
C1_FailureAborts ==
  /\ \A i \in OpIndexes :
       ops[i].st = "failed" => i = Len(ops) /\ pc = "failed"
  /\ \A i \in CheckIndexes :
       checks[i].st = "rejected" =>
         /\ pc = "failed"
         /\ \A j \in OpIndexes : ops[j].op \in PreparationOps /\ ops[j].st = "ok"
  /\ pc = "failed" =>
       \/ \E i \in CheckIndexes : checks[i].st = "rejected"
       \/ ops # <<>> /\ ops[Len(ops)].st = "failed"
  /\ pc = "done" =>
       /\ \A i \in OpIndexes : ops[i].st = "ok"
       /\ \A i \in CheckIndexes : checks[i].st \in {"true", "false"}

\* a run that failed in the secondary install's npm link
C1_Witness ==
  /\ pc = "failed"
  /\ Len(ops) > 1
  /\ ops[Len(ops)].op = "npm"
  /\ ops[Len(ops)].args = <<<<"link">>>>
  /\ ops[Len(ops)].st = "failed"

\* ------------------------------------------------------------- C2
\* C2: a check whose fetch ended in a network error is rejected, never
\* false; the run is then failed with no manifest written and no
\* package-manager install started.  A check that issued a request is
\* false only on a completed response whose status is not 200.
C2_NetworkErrorIsFatal ==
  \A i \in CheckIndexes :
    /\ (checks[i].requested /\ checks[i].outcome.kind = "error") =>
         /\ checks[i].st = "rejected"
         /\ pc = "failed"
         /\ manifest = NoFile
         /\ \A j \in OpIndexes : ops[j].op \notin {"npm", "writeFileSync"}
    /\ (checks[i].requested /\ checks[i].st = "false") =>
         /\ checks[i].outcome.kind = "response"
         /\ checks[i].outcome.status # HTTP_OK

\* one check answered 404 and another hit a network error
C2_Witness ==
  /\ \E i \in CheckIndexes : checks[i].st = "rejected"
  /\ \E i \in CheckIndexes :
       checks[i].st = "false" /\ checks[i].requested

\* ------------------------------------------------------------- C3
GeneratedDeps == dummyPackageJSON.dependencies
Positions(o, key) == {i \in 1..Len(o) : o[i].k = key}

\* what the merge order base < D < O gives a key
MergeValue(key) ==
  IF Has(dependencyOverrides, key) THEN Get(dependencyOverrides, key)
  ELSE IF Has(defaultDependencies, key) THEN Get(defaultDependencies, key)
  ELSE Get(BaseDependencies, key)

\* C3 as stated: in the manifest generateDummyPackageJSON(O) returns,
\* every key of both D and O has exactly O's value.
C3_OverrideWinsEveryKey ==
  pc = "generated" =>
    \A key \in KeySet(defaultDependencies) \cap KeySet(dependencyOverrides) :
      Get(GeneratedDeps, key) = Get(dependencyOverrides, key)

\* C3 as amended: the keys of the returned manifest are those of the base
\* entry, D and O, each exactly once, and every key other than the host
\* module's name has the value of the merge order base < D < O; so a key
\* of both D and O other than the host module's name has O's value.
C3_OverrideWinsButHost ==
  pc = "generated" =>
    /\ KeySet(GeneratedDeps) =
         {"sqlite3"} \cup KeySet(defaultDependencies)
                     \cup KeySet(dependencyOverrides)
    /\ \A key \in KeySet(GeneratedDeps) :
         /\ Cardinality(Positions(GeneratedDeps, key)) = 1
         /\ key # hostModule => Get(GeneratedDeps, key) = MergeValue(key)

\* D and O share a key that is not the host module, D redefines sqlite3
C3_Witness ==
  /\ pc = "generated"
  /\ Has(defaultDependencies, "sqlite3")
  /\ \E key \in KeySet(defaultDependencies) \cap KeySet(dependencyOverrides) :
       /\ key # hostModule
       /\ Get(defaultDependencies, key) # Get(dependencyOverrides, key)
       /\ Get(GeneratedDeps, key) = Get(dependencyOverrides, key)

\* ------------------------------------------------------------- C4
\* C4: whenever the host module's name is a key of the dependencies of
\* the manifest generateDummyPackageJSON returns, its value is 'file:../'.
C4_HostIsSelfReference ==
  pc = "generated" =>
    (Has(GeneratedDeps, hostModule) =>
       Get(GeneratedDeps, hostModule) = SelfReference)

\* ------------------------------------------------------------- C5
\* C5: when 'ilp-kit' is a key of the Dependency Set install starts with,
\* the manifest install writes has no 'ilp-kit' key.
C5_NoIlpKitInManifest ==
  (manifest # NoFile /\ Has(startupDependencies, "ilp-kit")) =>
    ~Has(manifest.dependencies, "ilp-kit")

\* ------------------------------------------------------------- C6
\* every repository identifier the run started with is a non-empty string
NonEmptyRepos ==
  \A i \in 1..Len(startupDependencies) : Truthy(startupDependencies[i].v)

\* C6: every resolution of the Branch Under Test within one run of
\* install (one per existence check, one for the override values) yields
\* the same value.
C6_OneBranchPerRun ==
  NonEmptyRepos =>
    \A i, j \in 1..Len(resolved) : resolved[i].result = resolved[j].result

\* ------------------------------------------------------------- C7
ConfirmedChecks == {i \in CheckIndexes : checks[i].st = "true"}

\* C7: once install is past override resolution every check has settled,
\* and the Override Set has exactly one entry per dependency whose check
\* was answered 200: the repository, '#', and the branch that check asked
\* for.
C7_OverrideSetExact ==
  (pc = "extract" /\ NonEmptyRepos) =>
    /\ Len(checks) = Len(startupDependencies)
    /\ \A i \in CheckIndexes : checks[i].st \in {"true", "false"}
    /\ KeySet(dependencyOverrides) = {checks[i].dep : i \in ConfirmedChecks}
    /\ \A i \in ConfirmedChecks :
         /\ checks[i].outcome = Response(HTTP_OK)
         /\ Get(dependencyOverrides, checks[i].dep) =
              Get(startupDependencies, checks[i].dep)
                \o <<Hash>> \o checks[i].branch

\* ------------------------------------------------------------- C8
\* no resolution of this run yielded a Branch Under Test
NoBranchRun == \A i \in 1..Len(resolved) : ~Truthy(resolved[i].result)
RequestingChecks == {i \in CheckIndexes : checks[i].requested}

\* C8 as stated, for the manifest: a run of install with no Branch Under
\* Test writes a manifest whose dependencies are the base sqlite3 entry
\* plus the Dependency Set, unchanged.
C8_ManifestIsBasePlusD ==
  (NoBranchRun /\ manifest # NoFile) =>
    manifest.dependencies = Assign(BaseDependencies, defaultDependencies)

\* C8 as amended: a check made with the Branch Under Test absent is false
\* and issues no request; requests are issued only by the other checks;
\* a run with no Branch Under Test issues no request, has an empty
\* Override Set and writes a manifest whose keys are sqlite3 and those of
\* the Dependency Set, every key but the host module's name with the value
\* the Dependency Set (else the base entry) gives it.
C8_NoBranchNoRequest ==
  /\ \A i \in CheckIndexes :
       ~Truthy(checks[i].branch) =>
         checks[i].st = "false" /\ ~checks[i].requested
  /\ Len(requests) = Cardinality(RequestingChecks)
  /\ NoBranchRun =>
       /\ requests = <<>>
       /\ dependencyOverrides = <<>>
       /\ manifest # NoFile =>
            /\ KeySet(manifest.dependencies) =
                 {"sqlite3"} \cup KeySet(defaultDependencies)
            /\ \A key \in KeySet(manifest.dependencies) \ {hostModule} :
                 Get(manifest.dependencies, key) =
                   IF Has(defaultDependencies, key)
                   THEN Get(defaultDependencies, key)
                   ELSE Get(BaseDependencies, key)

\* a completed run over two dependencies, the host module among them,
\* with no Branch Under Test
C8_Witness ==
  /\ pc = "done"
  /\ NoBranchRun
  /\ Len(checks) = 2
  /\ Has(defaultDependencies, hostModule)
  /\ manifest # NoFile

\* ------------------------------------------------------------- C9
EnvAbsent(e) == e = UNDEFINED \/ e = <<>>
\* the value the priority order env, then checkout, selects
SelectedValue(r) ==
  IF ~EnvAbsent(r.env) THEN r.env
  ELSE IF r.git = GitThrows THEN r.env
  ELSE r.git

\* C9: getBranchNameUnderTest consults the local checkout exactly when
\* CIRCLE_BRANCH is absent (unset or empty), and returns null whenever
\* the value selected, from either source, is 'master' or not a string.
C9_MasterAndNonStringAreAbsent ==
  \A i \in 1..Len(resolved) :
    /\ resolved[i].consulted <=> EnvAbsent(resolved[i].env)
    /\ (SelectedValue(resolved[i]) = Master
          \/ ~IsString(SelectedValue(resolved[i]))) =>
         resolved[i].result = NULL
    /\ (~EnvAbsent(resolved[i].env) /\ resolved[i].env # Master) =>
         resolved[i].result = resolved[i].env

\* 'master' from the environment and a non-string from the checkout,
\* both answered null
C9_Witness ==
  /\ \E i \in 1..Len(resolved) :
       resolved[i].env = Master /\ resolved[i].result = NULL
  /\ \E i \in 1..Len(resolved) :
       /\ resolved[i].consulted
       /\ resolved[i].git = NULL
       /\ resolved[i].result = NULL

\* ------------------------------------------------------------ C10
\* the branch whose existence on ilp-kit's repository was confirmed,
\* else 'master'
ConfirmedKitBranch ==
  IF \E i \in ConfirmedChecks : checks[i].dep = "ilp-kit"
  THEN checks[CHOOSE i \in ConfirmedChecks : checks[i].dep = "ilp-kit"].branch
  ELSE Master

\* C10 (for non-empty repository identifiers): installIlpKit is called at
\* most once, only if 'ilp-kit' was a key at startup, with that key's
\* startup value and the confirmed branch (else 'master'); a completed
\* run that started with the key has called it.
C10_SecondaryInstallArgs ==
  NonEmptyRepos =>
    /\ Len(kitCalls) <= 1
    /\ kitCalls # <<>> =>
         /\ Has(startupDependencies, "ilp-kit")
         /\ kitCalls[1].repo = Get(startupDependencies, "ilp-kit")
         /\ kitCalls[1].branch = ConfirmedKitBranch
    /\ (pc = "done" /\ Has(startupDependencies, "ilp-kit")) =>
         Len(kitCalls) = 1

\* ------------------------------------------------------------ C11
\* the position in requests of the request check i issued
RequestIndex(i) == Cardinality({j \in 1..i : checks[j].requested})

\* C11: a call of checkForBranchOnDependency(d) made with a Branch Under
\* Test b issues exactly one request, to https://github.com/<D[d]>/tree/<b>,
\* and once the response is in, answers true if and only if its status is
\* 200; 204, 301 and 404 answer false.
C11_OneGetTrueIff200 ==
  /\ Len(requests) = Cardinality(RequestingChecks)
  /\ \A i \in CheckIndexes :
       Truthy(checks[i].branch) =>
         /\ checks[i].requested
         /\ requests[RequestIndex(i)] =
              <<"https://github.com/">> \o Get(defaultDependencies, checks[i].dep)
                \o <<"/tree/">> \o checks[i].branch
         /\ (checks[i].st # "pending" /\ checks[i].outcome.kind = "response") =>
              /\ checks[i].st \in {"true", "false"}
              /\ checks[i].st = "true" <=> checks[i].outcome.status = 200

\* two calls answered: one 200 and true, one 204 and false
C11_Witness ==
  /\ \E i \in CheckIndexes :
       checks[i].outcome = Response(200) /\ checks[i].st = "true"
  /\ \E i \in CheckIndexes :
       checks[i].outcome = Response(204) /\ checks[i].st = "false"

\* ------------------------------------------------------------ C12
\* the steps: 1 prepare workspace, 2 resolve overrides, 3 extract the
\* Special Dependency, 4 write manifest, 5 bulk install, 6 stale-copy
\* cleanup, 7 secondary install
AfterClone(i) == \E j \in 1..(i - 1) : ops[j].op = "git"
StepAt(i) ==
  CASE ops[i].op \in {"rm", "mkdirSync"} -> 1
    [] ops[i].op = "chdir" -> IF AfterClone(i) THEN 7 ELSE 1
    [] ops[i].op = "writeFileSync" -> 4
    [] ops[i].op = "npm" -> IF AfterClone(i) THEN 7 ELSE 5
    [] ops[i].op = "rimraf" -> 6
    [] OTHER -> 7
PcStep(p) ==
  CASE p = "start" -> 0
    [] p \in {"rm", "mkdir"} -> 1
    [] p = "checks" -> 2
    [] p = "extract" -> 3
    [] p \in {"generate", "write"} -> 4
    [] p = "npmInstall" -> 5
    [] p = "cleanup" -> 6
    [] p \in {"clone", "kitInstall", "kitLink", "linkBack"} -> 7
    [] OTHER -> 8
OnceOps == {"rm", "mkdirSync", "writeFileSync", "git"}

C12_Order ==
  /\ \A i, j \in OpIndexes : i < j => StepAt(i) <= StepAt(j)
  /\ \A i, j \in OpIndexes :
       (ops[i].op \in OnceOps /\ ops[i].op = ops[j].op) => i = j
  /\ \A i, j \in OpIndexes :
       (ops[i].op = "npm" /\ ops[j].op = "npm"
          /\ StepAt(i) = 5 /\ StepAt(j) = 5) => i = j
  /\ \A i \in OpIndexes : ops[i].st = "running" => i = Len(ops)
  /\ \A i \in OpIndexes : i < Len(ops) => ops[i].st = "ok"
  /\ (\E i \in CheckIndexes : checks[i].st = "pending") =>
       \A i \in OpIndexes : ops[i].st # "running"
  /\ pc # "failed" => \A i \in OpIndexes : StepAt(i) <= PcStep(pc)
  /\ (\E i \in OpIndexes : StepAt(i) >= 4) =>
       /\ Len(checks) = Len(startupDependencies)
       /\ \A i \in CheckIndexes : checks[i].st \in {"true", "false"}
       /\ Len(resolved) = Len(checks) + 1

\* C12: the operations of a run of install occur in the order of the
\* steps 1..7, the single operations at most once; an operation is
\* started only when every earlier one has succeeded, so at most one is
\* in flight, and none while an existence check is pending; install
\* never moves back to an earlier step.
C12_StepsInOrder ==
  /\ []C12_Order
  /\ [][PcStep(pc') >= PcStep(pc)]_vars

\* a completed run that went through the cleanup and the secondary install
C12_Witness ==
  /\ pc = "done"
  /\ kitCalls # <<>>
  /\ \E i \in OpIndexes : ops[i].op = "rimraf"
  /\ \E i \in CheckIndexes : checks[i].st = "true"

\* ------------------------------------------------------------ C13
WriteOps == {i \in OpIndexes : ops[i].op = "writeFileSync"}
BulkInstallOps == {i \in OpIndexes : ops[i].op = "npm" /\ StepAt(i) = 5}

C13_Written ==
  /\ Cardinality(WriteOps) <= 1
  /\ manifest # NoFile =>
       /\ \E i \in WriteOps : ops[i].st = "ok"
       /\ \A i \in CheckIndexes : checks[i].st \in {"true", "false"}
       /\ ~Has(dependencyOverrides, "ilp-kit")
       /\ manifest = generateDummyPackageJSON(defaultDependencies,
                                              dependencyOverrides, hostModule)
  /\ \A i \in BulkInstallOps :
       /\ manifest # NoFile
       /\ \E j \in WriteOps : j < i

\* C13: install writes the manifest at most once, before the bulk
\* install is started, from the Dependency Set and Override Set left by
\* the settled checks and the extraction; once written it never changes.
C13_ManifestWrittenOnce ==
  /\ []C13_Written
  /\ [][manifest # NoFile => manifest' = manifest]_vars

\* a completed run with an override in the manifest and a secondary install
C13_Witness ==
  /\ pc = "done"
  /\ manifest # NoFile
  /\ dependencyOverrides # <<>>
  /\ kitCalls # <<>>
  /\ \E i \in CheckIndexes : checks[i].dep = "ilp-kit" /\ checks[i].st = "true"

\* ------------------------------------------------------------ C14
CleanedNames == {ops[i].args[1][2] : i \in {j \in OpIndexes : ops[j].op = "rimraf"}}

\* C14: once the cleanup step is over, a nested-copy delete has been
\* issued for every key the Dependency Set had at startup, 'ilp-kit'
\* included.
C14_CleanupOverStartupNames ==
  pc \in {"clone", "kitInstall", "kitLink", "linkBack", "done"} =>
    KeySet(startupDependencies) \subseteq CleanedNames

\* ------------------------------------------------------------ C15
GitOps == {i \in OpIndexes : ops[i].op = "git"}
\* the operations installIlpKit(repo, branch) performs, in order
SecondaryOps(repo, b) ==
  << [op |-> "git",
      args |-> <<<<"clone">>, <<"https://github.com/">> \o repo, <<"-b">>, b,
                 TestDir \o <<"/ilp-kit">>>>],
     [op |-> "chdir", args |-> <<TestDir \o <<"/ilp-kit">>>>],
     [op |-> "npm", args |-> <<<<"install">>>>],
     [op |-> "npm", args |-> <<<<"link">>>>],
     [op |-> "chdir", args |-> <<TestDir>>],
     [op |-> "npm", args |-> <<<<"link">>, <<"ilp-kit">>>>] >>
SecondaryDirs ==
  << TestDir, TestDir \o <<"/ilp-kit">>, TestDir \o <<"/ilp-kit">>,
     TestDir \o <<"/ilp-kit">>, TestDir, TestDir >>

\* C15: the operations from the git clone on are, in order, clone into
\* <workspace>/ilp-kit at the resolved branch, npm install and npm link
\* in that directory, the switch back, npm link ilp-kit in the workspace
\* root; each is started only after the one before it succeeded; the
\* clone is started only after the bulk install and every cleanup delete
\* succeeded.
C15_SecondaryInstallOrder ==
  \A g \in GitOps :
    /\ Len(kitCalls) = 1
    /\ Len(ops) - g + 1 <= Len(SecondaryDirs)
    /\ \A i \in g..Len(ops) :
         /\ [op |-> ops[i].op, args |-> ops[i].args] =
              SecondaryOps(kitCalls[1].repo, kitCalls[1].branch)[i - g + 1]
         /\ ops[i].dir = SecondaryDirs[i - g + 1]
         /\ i < Len(ops) => ops[i].st = "ok"
    /\ \E i \in 1..(g - 1) :
         ops[i].op = "npm" /\ ops[i].args = <<<<"install">>>> /\ ops[i].st = "ok"
    /\ Cardinality({i \in 1..(g - 1) : ops[i].op = "rimraf" /\ ops[i].st = "ok"})
         = Len(defaultDependencies)

\* the secondary install ran to its end after a cleanup delete
C15_Witness ==
  /\ pc = "done"
  /\ GitOps # {}
  /\ \E i \in OpIndexes : ops[i].op = "rimraf"
  /\ ops[Len(ops)].args = <<<<"link">>, <<"ilp-kit">>>>

\* ------------------------------------------------------------ C16
LookupFailed(r) == r.consulted /\ r.git = GitThrows
\* every resolution of the run found CIRCLE_BRANCH unset and the lookup failing
LookupFailedRun ==
  /\ resolved # <<>>
  /\ \A i \in 1..Len(resolved) :
       LookupFailed(resolved[i]) /\ resolved[i].env = UNDEFINED

\* C16: a resolution whose checkout lookup failed yields no branch (null
\* when CIRCLE_BRANCH is unset); a run of install in which every
\* resolution is such has no request, only false checks and an empty
\* Override Set, and fails only where one of its operations failed.
C16_LookupFailureSwallowed ==
  /\ \A i \in 1..Len(resolved) :
       LookupFailed(resolved[i]) =>
         /\ ~Truthy(resolved[i].result)
         /\ resolved[i].env = UNDEFINED => resolved[i].result = NULL
  /\ LookupFailedRun =>
       /\ requests = <<>>
       /\ dependencyOverrides = <<>>
       /\ \A i \in CheckIndexes : checks[i].st = "false"
       /\ pc = "failed" => (ops # <<>> /\ ops[Len(ops)].st = "failed")

\* such a run, over two dependencies, completed
C16_Witness ==
  /\ LookupFailedRun
  /\ Len(resolved) = 3
  /\ pc = "done"
  /\ manifest # NoFile

\* ------------------------------------------------------------ C17
C17_Kept ==
  /\ \A key \in KeySet(defaultDependencies) :
       /\ Has(startupDependencies, key)
       /\ Get(defaultDependencies, key) = Get(startupDependencies, key)
  /\ KeySet(startupDependencies) \ KeySet(defaultDependencies) \subseteq {"ilp-kit"}

\* C17: in every state of a run of install each key of the Dependency
\* Set other than 'ilp-kit' is present with its startup value and no key
\* is new; the set changes in the extraction step only, once, and by the
\* removal of 'ilp-kit' only.
C17_OnlyIlpKitRemoved ==
  /\ []C17_Kept
  /\ [][defaultDependencies' # defaultDependencies =>
          /\ pc = "extract"
          /\ defaultDependencies = startupDependencies
          /\ Has(defaultDependencies, "ilp-kit")
          /\ KeySet(defaultDependencies') =
               KeySet(defaultDependencies) \ {"ilp-kit"}]_vars

\* a run that removed 'ilp-kit' and kept another key, after the manifest
\* was generated and the checks were made
C17_Witness ==
  /\ pc = "done"
  /\ Has(startupDependencies, "ilp-kit")
  /\ ~Has(defaultDependencies, "ilp-kit")
  /\ Len(defaultDependencies) = 1
  /\ requests # <<>>

\* ------------------------------------------------------------ C18
\* the directory the step of operation i is meant to act on
IntendedDir(i) ==
  CASE ops[i].op = "rimraf" -> TestDir
    [] ops[i].op = "npm" /\ ops[i].args = <<<<"link">>, <<"ilp-kit">>>> -> TestDir
    [] ops[i].op = "npm" /\ ops[i].args = <<<<"link">>>> -> TestDir \o <<"/ilp-kit">>
    [] ops[i].op = "npm" /\ AfterClone(i) -> TestDir \o <<"/ilp-kit">>
    [] ops[i].op = "npm" -> TestDir
    [] OTHER -> ops[i].dir

\* C18: the bulk install, every cleanup delete and the final link act on
\* the workspace root, the clone's install and link on the ilp-kit
\* subdirectory, whatever happens to the process's working directory
\* between the steps.
C18_OpsInIntendedDir ==
  \A i \in OpIndexes : ops[i].dir = IntendedDir(i)

\* ------------------------------------------------------------ C19
RECURSIVE NonHost(_)
\* the keys the loader installs, in iteration order
NonHost(keys) ==
  IF keys = <<>> THEN <<>>
  ELSE IF Head(keys) = hostModule THEN NonHost(Tail(keys))
       ELSE <<Head(keys)>> \o NonHost(Tail(keys))

\* the install command the loader owes to the i-th key it installs
LoaderInstallArgs(i) ==
  <<<<"install">>,
    Concat(Concat(Get(defaultDependencies, NonHost(Keys(defaultDependencies))[i]),
                  <<Hash>>),
           IF checks[i].st = "true" THEN checks[i].branch ELSE Master)>>

\* C19: the loader takes the keys other than the host module's name in
\* iteration order; the i-th install follows the i-th check, is
\* 'npm install <repo>#<branch>' with the branch that check confirmed or
\* 'master', starts only after every earlier install succeeded; a rejected
\* check or failed install fails the run with nothing started after it,
\* and a completed run installed every such key.
C19_LoaderInstalls ==
  LET keys == NonHost(Keys(defaultDependencies))
  IN NonEmptyRepos =>
     /\ Len(checks) <= Len(keys)
     /\ Len(ops) <= Len(checks)
     /\ Len(checks) <= Len(ops) + 1
     /\ \A i \in CheckIndexes :
          /\ checks[i].dep = keys[i]
          /\ i < Len(checks) => checks[i].st \in {"true", "false"}
     /\ \A i \in OpIndexes :
          /\ ops[i].op = "npm"
          /\ ops[i].args = LoaderInstallArgs(i)
          /\ i < Len(ops) => ops[i].st = "ok"
     /\ pc = "failed" <=>
          \/ checks # <<>> /\ checks[Len(checks)].st = "rejected"
          \/ ops # <<>> /\ ops[Len(ops)].st = "failed"
     /\ pc = "done" =>
          /\ Len(ops) = Len(keys)
          /\ \A i \in OpIndexes : ops[i].st = "ok"

====
